---------------------------- MODULE Spec2Model ----------------------------
(***************************************************************************)
(* A model of the zeet front end and evaluator: Lexer::tokenize            *)
(* (src/src/lexer.rs), Parser (src/src/parser.rs) and interpret/eval_expr  *)
(* (src/src/interpreter.rs).                                               *)
(*                                                                         *)
(* Three specifications share the variables:                               *)
(*   SpecLex    - tokenize, one loop iteration per step, on character      *)
(*                strings built from LexFrags;                             *)
(*   Spec       - Parser::parse_program on token sequences built from      *)
(*                ParseInputs, then interpret on the statements it         *)
(*                returned (the pipeline of main.rs after the lexer);      *)
(*   SpecInterp - interpret on statement sequences built from StmtPool     *)
(*                (interpret is public and takes any Vec<Stmt>).           *)
(* The parser consumes crate::token::Token while the lexer produces its    *)
(* own lexer::Token, so the parser's inputs are drawn over token::Token    *)
(* and not taken from the lexer's output.                                  *)
(*                                                                         *)
(* Numbers (f64 in the source) are integers counting units of 1e-9, so     *)
(* that a difference below, at and above the 1e-9 tolerance of `same` is   *)
(* representable; rounding of f64 arithmetic is not modelled.              *)
(***************************************************************************)
EXTENDS Integers, Sequences, FiniteSets, TLC

VARIABLES
    input,      \* Lexer.input: the characters, each a one-character string
    lpos,       \* Lexer.pos, 1-based
    ltokens,    \* tokenize's local `tokens`
    lstatus,    \* "idle" | "scanning" | "done" | "panic" (unwrap failed)
    toks,       \* Parser.tokens: the whole token vector
    pos,        \* Parser.tokens: position of the iterator, 1-based
    pc,         \* which loop of the parser / interpreter runs next
    stmts,      \* parse_program's local `stmts`
    cur,        \* parse_function's locals: params, types, body
    program,    \* interpret's argument
    ip,         \* interpret's loop index, 1-based
    env,        \* the Environment's root scope: name -> Value
    out,        \* the lines printed by println!, in order
    vals        \* the value eval_expr returned for each executed statement

vars == <<input, lpos, ltokens, lstatus, toks, pos, pc, stmts, cur,
          program, ip, env, out, vals>>

lexVars == <<input, lpos, ltokens, lstatus>>
parseVars == <<toks, pos, stmts, cur>>

-----------------------------------------------------------------------------
(* Bounds of the model *)

\* most fragments concatenated into one lexer input
MaxLexFrags == 3
\* most body fragments concatenated into one function body of a parser input
MaxBodyFrags == 4
\* rand::random::<u32>() is drawn from 0..RandMax
RandMax == 1
\* most statements in a program handed directly to interpret
MaxProg == 2

-----------------------------------------------------------------------------
(* Helpers *)

RECURSIVE Flatten(_)
Flatten(ss) == IF ss = <<>> THEN <<>> ELSE Head(ss) \o Flatten(Tail(ss))

\* all sequences of at most n elements of S
SeqsUpTo(S, n) == UNION {[1..k -> S] : k \in 0..n}

Last(s) == s[Len(s)]


-----------------------------------------------------------------------------
(* Numbers: f64 values as fixed point, w whole units and n units of 1e-9 *)

\* units per 1.0; one unit is the 1e-9 tolerance of `same`
Nano == 1000000000

MkNum(w, n) == [w |-> w, n |-> n]

Abs(x) == IF x < 0 THEN 0 - x ELSE x

\* |a - b| in units of 1e-9, saturated at 2 (anything above the tolerance)
AbsDiff(a, b) ==
    LET dw == a.w - b.w
        dn == a.n - b.n
    IN  IF Abs(dw) >= 2 THEN 2
        ELSE LET d == Abs(dw * Nano + dn) IN IF d > 2 THEN 2 ELSE d

\* a + b
NumAdd(a, b) ==
    LET n == a.n + b.n
    IN  IF n >= Nano THEN MkNum(a.w + b.w + 1, n - Nano) ELSE MkNum(a.w + b.w, n)

RECURSIVE Pow10(_)
Pow10(k) == IF k = 0 THEN 1 ELSE 10 * Pow10(k - 1)

\* the decimal digits of a fraction n (0 < n < Nano, k digits wide), trailing
\* zeros dropped, as f64's Display prints them
RECURSIVE FracText(_, _)
FracText(n, k) ==
    IF n = 0 THEN ""
    ELSE LET p == Pow10(k - 1) IN ToString(n \div p) \o FracText(n % p, k - 1)

\* format!("{}", b) for an f64 b >= 0
FormatNum(x) == IF x.n = 0 THEN ToString(x.w) ELSE ToString(x.w) \o "." \o FracText(x.n, 9)

-----------------------------------------------------------------------------
(* Lexer (src/src/lexer.rs) *)

Digits == {"0", "1", "2", "3", "4", "5", "6", "7", "8", "9"}
Letters == {"a", "b", "c", "d", "e", "f", "g", "h", "i", "j", "k", "l", "m",
            "n", "o", "p", "q", "r", "s", "t", "u", "v", "w", "x", "y", "z",
            "A", "B", "C", "D", "E", "F", "G", "H", "I", "J", "K", "L", "M",
            "N", "O", "P", "Q", "R", "S", "T", "U", "V", "W", "X", "Y", "Z"}
Whitespace == {" ", "\t", "\n", "\r"}
Punct == {"(", ")", ",", ":", "<", ">", "\"", "-", "=", "_", ".", "#", "+"}
Chars == Digits \cup Letters \cup Whitespace \cup Punct

\* ch.is_alphanumeric() || ch == '_'
WordChars == Letters \cup Digits \cup {"_"}
\* ch.is_ascii_digit() || ch == '.'
NumChars == Digits \cup {"."}
\* ch != '"'
NotQuote == Chars \ {"\""}

\* Lexer::peek at position i: the character, or "" for None
LexPeek(i) == IF i <= Len(input) THEN input[i] ELSE ""

\* Lexer::advance from position i
LexAdvance(i) == IF i <= Len(input) THEN i + 1 ELSE i

\* a consume_while that never advances: it stops where it started
ConsumeEndNone(S, i) == i

\* Lexer::consume_while from position i, cond given as the set it accepts:
\* the position it stops at
RECURSIVE ConsumeEnd(_, _)
ConsumeEnd(S, i) ==
    IF i <= Len(input) /\ input[i] \in S THEN ConsumeEnd(S, LexAdvance(i)) ELSE i

\* the String consume_while returns: the characters from i up to j
RECURSIVE Text(_, _)
Text(i, j) == IF i >= j THEN "" ELSE input[i] \o Text(i + 1, j)

DigitVal(c) == CHOOSE d \in 0..9 : ToString(d) = c

\* the characters of positions i..j-1 as a sequence
Slice(i, j) == [k \in 1..(j - i) |-> input[i + k - 1]]

RECURSIVE DigitsToInt(_)
DigitsToInt(ds) ==
    IF ds = <<>> THEN 0
    ELSE 10 * DigitsToInt(SubSeq(ds, 1, Len(ds) - 1)) + DigitVal(Last(ds))

\* str::parse::<f64>() on a run of digits and dots that starts with a digit:
\* Ok for digits, an optional dot and optional digits; Err for two dots or more
ParseF64(cs) ==
    LET dots == {k \in 1..Len(cs) : cs[k] = "."}
    IN  IF Cardinality(dots) > 1 THEN [ok |-> FALSE, val |-> MkNum(0, 0)]
        ELSE IF dots = {} THEN [ok |-> TRUE, val |-> MkNum(DigitsToInt(cs), 0)]
        ELSE LET d == CHOOSE k \in dots : TRUE
                 whole == SubSeq(cs, 1, d - 1)
                 frac == SubSeq(cs, d + 1, Len(cs))
                 f9 == IF Len(frac) > 9 THEN SubSeq(frac, 1, 9) ELSE frac
             IN  [ok |-> TRUE,
                  val |-> MkNum(DigitsToInt(whole),
                                DigitsToInt(f9) * Pow10(9 - Len(f9)))]

\* lexer::Token
LTok(t) == [t |-> t]
LWord(t, s) == [t |-> t, s |-> s]
LNum(v) == [t |-> "NumberLiteral", v |-> v]

\* the '_' arm's classification of a word
UnderscoreWord(word) ==
    IF word = "__fn" THEN LTok("FnStart")
    ELSE IF word = "__" THEN LTok("BlockEnd")
    ELSE LWord("Identifier", word)

\* the letter arm's classification of a word
LetterWord(word) ==
    IF word = "import" THEN LTok("Import")
    ELSE IF word = "from" THEN LTok("From")
    ELSE IF word \in {"if", "then", "otherwise", "run", "ret"} THEN LWord("Keyword", word)
    ELSE IF word \in {"plus", "minus", "equal", "not"} THEN LWord("Operator", word)
    ELSE LWord("Identifier", word)

SingleCharToken(c) ==
    CASE c = "(" -> LTok("LParen")
      [] c = ")" -> LTok("RParen")
      [] c = "," -> LTok("Comma")
      [] c = ":" -> LTok("Colon")
      [] c = "<" -> LTok("Lt")
      [] c = ">" -> LTok("Gt")
      [] c = "=" -> LTok("Assign")

\* one iteration of tokenize's `while let Some(c) = self.peek()`, or the
\* push of EOF when peek() is None
LexStep ==
    /\ lstatus = "scanning"
    /\ LET c == LexPeek(lpos) IN
       IF c = "" THEN
            /\ ltokens' = Append(ltokens, LTok("EOF"))
            /\ lstatus' = "done"
            /\ lpos' = lpos
       ELSE IF c \in Whitespace THEN
            /\ lpos' = LexAdvance(lpos)
            /\ UNCHANGED <<ltokens, lstatus>>
       ELSE IF c \in {"(", ")", ",", ":", "<", ">", "="} THEN
            /\ ltokens' = Append(ltokens, SingleCharToken(c))
            /\ lpos' = LexAdvance(lpos)
            /\ UNCHANGED lstatus
       ELSE IF c = "\"" THEN
            LET start == LexAdvance(lpos)
                stop == ConsumeEnd(NotQuote, start)
            IN  /\ ltokens' = Append(ltokens, LWord("StringLiteral", Text(start, stop)))
                /\ lpos' = LexAdvance(stop)
                /\ UNCHANGED lstatus
       ELSE IF c \in Digits THEN
            LET stop == ConsumeEnd(NumChars, lpos)
                r == ParseF64(Slice(lpos, stop))
            IN  /\ lpos' = stop
                /\ IF r.ok
                   THEN ltokens' = Append(ltokens, LNum(r.val)) /\ UNCHANGED lstatus
                   ELSE lstatus' = "panic" /\ UNCHANGED ltokens
       ELSE IF c = "-" THEN
            LET p1 == LexAdvance(lpos) IN
            IF LexPeek(p1) = ">"
            THEN /\ lpos' = LexAdvance(p1)
                 /\ ltokens' = Append(ltokens, LTok("Arrow"))
                 /\ UNCHANGED lstatus
            ELSE /\ lpos' = p1
                 /\ UNCHANGED <<ltokens, lstatus>>
       ELSE IF c = "_" THEN
            LET stop == ConsumeEnd(WordChars, lpos) IN
            /\ ltokens' = Append(ltokens, UnderscoreWord(Text(lpos, stop)))
            /\ lpos' = stop
            /\ UNCHANGED lstatus
       ELSE IF c \in Letters THEN
            LET stop == ConsumeEnd(WordChars, lpos) IN
            /\ ltokens' = Append(ltokens, LetterWord(Text(lpos, stop)))
            /\ lpos' = stop
            /\ UNCHANGED lstatus
       ELSE
            /\ lpos' = LexAdvance(lpos)
            /\ UNCHANGED <<ltokens, lstatus>>
    /\ UNCHANGED <<input, toks, pos, pc, stmts, cur, program, ip, env, out, vals>>

\* the fragments lexer inputs are built from
LexFrags ==
    { <<"\"">>, <<"a">>, <<"1">>, <<".">>, <<" ">>, <<"-">>, <<">">>, <<"#">>,
      <<"_", "_">>, <<"r", "e", "t">> }

LexInputs == {Flatten(fs) : fs \in SeqsUpTo(LexFrags, MaxLexFrags)}


-----------------------------------------------------------------------------
(* Syntax model (src/src/token.rs, src/src/ast.rs) *)

\* token::Token
Tk(t) == [t |-> t]
Id(s) == [t |-> "Identifier", s |-> s]
StringLit(s) == [t |-> "StringLit", s |-> s]
NumberLit(v) == [t |-> "NumberLit", v |-> v]
BoolLit(b) == [t |-> "BoolLit", b |-> b]

\* ast::Literal
LitStr(s) == [lk |-> "Str", lv |-> s]
LitNum(v) == [lk |-> "Num", lv |-> v]
LitBool(b) == [lk |-> "Bool", lv |-> b]

\* Option: None is the empty sequence, Some(x) the sequence of x alone
None == <<>>
Some(x) == <<x>>

\* ast::Expr
Import(name, alias, module) ==
    [tag |-> "Import", name |-> name, alias |-> alias, module |-> module]
Function(params, types, body) ==
    [tag |-> "Function", params |-> params, types |-> types, body |-> body]
Call(callee, args) == [tag |-> "Call", callee |-> callee, args |-> args]
If(cond, then_body, else_body) ==
    [tag |-> "If", cond |-> cond, then_body |-> then_body, else_body |-> else_body]
Run(e) == [tag |-> "Run", e |-> e]
Return(e) == [tag |-> "Return", e |-> e]
Binary(left, op, right) == [tag |-> "Binary", left |-> left, op |-> op, right |-> right]
Var(name) == [tag |-> "Var", name |-> name]
Lit(l) == [tag |-> "Lit", lit |-> l]

\* ast::Stmt
StmtExpr(e) == [st |-> "Expr", e |-> e]
FunctionDef(e) == [st |-> "FunctionDef", e |-> e]
ImportStmt(e) == [st |-> "ImportStmt", e |-> e]
StmtEmpty == [st |-> "Empty"]

-----------------------------------------------------------------------------
(* Parser (src/src/parser.rs) *)

\* Parser::peek with the iterator at position p
Peek(p) == IF p <= Len(toks) THEN toks[p] ELSE Tk("Eof")

\* the position after Parser::next at position p (the token it returns is Peek(p))
Adv(p) == IF p <= Len(toks) THEN p + 1 ELSE p

IsId(tok) == tok.t = "Identifier"

\* parse_import called with the iterator at p (on the Import token):
\* the expression and the position it leaves
parse_import(p) ==
    LET p1 == Adv(p)
        name == IF IsId(Peek(p1)) THEN Peek(p1).s ELSE ""
        p2 == Adv(p1)
        hasArrow == Peek(p2).t = "Arrow"
        p3 == IF hasArrow THEN Adv(p2) ELSE p2
        alias == IF hasArrow /\ IsId(Peek(p3)) THEN Some(Peek(p3).s) ELSE None
        p4 == IF hasArrow THEN Adv(p3) ELSE p3
        p5 == Adv(p4)
        first == Peek(p5)
        second == Peek(Adv(p5))
        module == IF IsId(first) THEN first.s
                  ELSE IF second.t = "StringLit" THEN second.s
                  ELSE ""
        p6 == IF IsId(first) THEN Adv(p5) ELSE Adv(Adv(p5))
    IN  [e |-> Import(name, alias, module), p |-> p6]


\* the operand parse_simple_expr starts with, read at position p:
\* the expression and the position after it
ParseOperand(p) ==
    LET first == Peek(p)
        p1 == Adv(p)
    IN  CASE first.t = "Identifier" -> [e |-> Var(first.s), p |-> p1]
          [] first.t = "StringLit" -> [e |-> Lit(LitStr(first.s)), p |-> p1]
          [] first.t = "NumberLit" -> [e |-> Lit(LitNum(first.v)), p |-> p1]
          [] first.t = "BoolLit" -> [e |-> Lit(LitBool(first.b)), p |-> p1]
          [] first.t = "LParen" ->
                IF IsId(Peek(p1))
                THEN [e |-> Var(Peek(p1).s), p |-> Adv(Adv(p1))]
                ELSE [e |-> Lit(LitBool(FALSE)), p |-> Adv(p1)]
          [] OTHER -> [e |-> Lit(LitBool(FALSE)), p |-> p1]

RECURSIVE parse_simple_expr(_)

\* a single operand where the parser recurses
ParseRightSingle(p) == ParseOperand(p)

\* `let right = self.parse_simple_expr();`
ParseRight(p) == parse_simple_expr(p)

\* parse_simple_expr called with the iterator at p
parse_simple_expr(p) ==
    LET left == ParseOperand(p)
        p2 == left.p
    IN  IF IsId(Peek(p2)) THEN
            LET op_word == Peek(p2).s
                p3 == Adv(p2)
            IN  IF op_word = "not" /\ IsId(Peek(p3)) /\ Peek(p3).s = "equal" THEN
                    LET right == ParseRight(Adv(p3))
                    IN  [e |-> Binary(left.e, "not_equal", right.e), p |-> right.p]
                ELSE
                    LET right == ParseRight(p3)
                    IN  [e |-> Binary(left.e, op_word, right.e), p |-> right.p]
        ELSE left

\* parse_if's loop over the then-branch from position p with then_body = acc:
\* the branch and the position the loop leaves
RECURSIVE ThenLoop(_, _)
ThenLoop(p, acc) ==
    LET tok == Peek(p) IN
    CASE tok.t = "Otherwise" -> [body |-> acc, p |-> Adv(p)]
      [] tok.t = "Ret" ->
            LET x == parse_simple_expr(Adv(p))
            IN  ThenLoop(x.p, Append(acc, StmtExpr(Return(x.e))))
      [] tok.t = "Run" ->
            LET x == parse_simple_expr(Adv(p))
            IN  ThenLoop(x.p, Append(acc, StmtExpr(Run(x.e))))
      [] tok.t \in {"Underscore", "Eof"} -> [body |-> acc, p |-> p]
      [] OTHER -> ThenLoop(Adv(p), acc)

\* parse_if called with the iterator at p (on the If token)
parse_if(p) ==
    LET cond == parse_simple_expr(Adv(p))
        p2 == IF Peek(cond.p).t = "Then" THEN Adv(cond.p) ELSE cond.p
        th == ThenLoop(p2, <<>>)
    IN  IF Peek(th.p).t = "Ret" THEN
            LET x == parse_simple_expr(Adv(th.p))
            IN  [e |-> If(cond.e, th.body, Some(<<StmtExpr(Return(x.e))>>)), p |-> x.p]
        ELSE [e |-> If(cond.e, th.body, None), p |-> th.p]

\* is_kw.to_lowercase(), on the identifiers the model's inputs use
ToLower(s) == IF s \in {"IS", "Is", "iS"} THEN "is" ELSE s

NoFunction == [params |-> <<>>, types |-> <<>>, body |-> <<>>]

\* parse_function between the parameter loop and the body loop, entered
\* with the iterator at p: the loop to run next and the position
AfterParams(p) ==
    IF Peek(p).t = "Colon" THEN
        IF Peek(Adv(p)).t = "LAngle"
        THEN [pc |-> "fn_types", p |-> Adv(Adv(p))]
        ELSE [pc |-> "fn_body", p |-> Adv(Adv(p))]
    ELSE [pc |-> "fn_body", p |-> p]

\* one iteration of parse_program's loop
ParseProgramStep ==
    /\ pc = "parse_program"
    /\ LET tok == Peek(pos) IN
       CASE tok.t = "Eof" ->
                \* parse_program returns; main builds the Environment and
                \* calls interpret
                /\ pc' = "interpret"
                /\ program' = stmts
                /\ UNCHANGED <<pos, stmts, cur>>
         [] tok.t = "Import" ->
                LET imp == parse_import(pos) IN
                /\ stmts' = Append(stmts, ImportStmt(imp.e))
                /\ pos' = imp.p
                /\ UNCHANGED <<pc, cur, program>>
         [] tok.t = "FnKw" ->
                LET p1 == Adv(pos)
                    p2 == IF Peek(p1).t = "Equals" THEN Adv(p1) ELSE p1
                    p3 == Adv(p2)
                    nxt == AfterParams(p3)
                IN  /\ cur' = NoFunction
                    /\ IF Peek(p2).t = "LParen"
                       THEN pc' = "fn_params" /\ pos' = p3
                       ELSE pc' = nxt.pc /\ pos' = nxt.p
                    /\ UNCHANGED <<stmts, program>>
         [] OTHER ->
                /\ pos' = Adv(pos)
                /\ UNCHANGED <<pc, stmts, cur, program>>
    /\ UNCHANGED <<toks, ip, env, out, vals>>
    /\ UNCHANGED lexVars

\* one iteration of parse_function's loop over the parameter list
ParamStep ==
    /\ pc = "fn_params"
    /\ LET tok == Peek(pos) IN
       CASE tok.t = "Identifier" ->
                /\ cur' = [cur EXCEPT !.params = Append(@, tok.s)]
                /\ pos' = Adv(pos)
                /\ UNCHANGED pc
         [] tok.t = "RParen" ->
                LET nxt == AfterParams(Adv(pos)) IN
                /\ pc' = nxt.pc
                /\ pos' = nxt.p
                /\ UNCHANGED cur
         [] OTHER ->
                \* Comma and every other token, Eof included: next(), loop again
                /\ pos' = Adv(pos)
                /\ UNCHANGED <<pc, cur>>
    /\ UNCHANGED <<toks, stmts, program, ip, env, out, vals>>
    /\ UNCHANGED lexVars

\* one iteration of parse_function's loop over the `: < ... >` block
TypeStep ==
    /\ pc = "fn_types"
    /\ LET tok == Peek(pos) IN
       CASE tok.t = "Identifier" ->
                LET p1 == Adv(pos)
                    is_kw == Peek(p1)
                    p2 == Adv(p1)
                    typ == Peek(p2)
                    p3 == Adv(p2)
                IN  IF IsId(is_kw) /\ ToLower(is_kw.s) = "is" THEN
                        IF IsId(typ)
                        THEN /\ cur' = [cur EXCEPT !.types = Append(@, <<tok.s, typ.s>>)]
                             /\ pos' = p3
                             /\ UNCHANGED pc
                        ELSE /\ pos' = Adv(p3)
                             /\ UNCHANGED <<pc, cur>>
                    ELSE /\ pos' = p1
                         /\ UNCHANGED <<pc, cur>>
         [] tok.t = "RAngle" ->
                /\ pc' = "fn_body"
                /\ pos' = Adv(pos)
                /\ UNCHANGED cur
         [] OTHER ->
                \* Comma and every other token, Eof included: next(), loop again
                /\ pos' = Adv(pos)
                /\ UNCHANGED <<pc, cur>>
    /\ UNCHANGED <<toks, stmts, program, ip, env, out, vals>>
    /\ UNCHANGED lexVars

\* one iteration of parse_function's loop over the body; on leaving the loop
\* parse_function returns and parse_program pushes the FunctionDef
BodyStep ==
    /\ pc = "fn_body"
    /\ LET tok == Peek(pos)
           finished == FunctionDef(Function(cur.params, cur.types, cur.body))
       IN
       CASE tok.t = "Underscore" ->
                /\ stmts' = Append(stmts, finished)
                /\ pos' = Adv(pos)
                /\ pc' = "parse_program"
                /\ cur' = NoFunction
         [] tok.t = "Eof" ->
                /\ stmts' = Append(stmts, finished)
                /\ pc' = "parse_program"
                /\ cur' = NoFunction
                /\ UNCHANGED pos
         [] tok.t = "If" ->
                LET x == parse_if(pos) IN
                /\ cur' = [cur EXCEPT !.body = Append(@, StmtExpr(x.e))]
                /\ pos' = x.p
                /\ UNCHANGED <<pc, stmts>>
         [] tok.t = "Run" ->
                LET x == parse_simple_expr(Adv(pos)) IN
                /\ cur' = [cur EXCEPT !.body = Append(@, StmtExpr(Run(x.e)))]
                /\ pos' = x.p
                /\ UNCHANGED <<pc, stmts>>
         [] tok.t = "Ret" ->
                LET x == parse_simple_expr(Adv(pos)) IN
                /\ cur' = [cur EXCEPT !.body = Append(@, StmtExpr(Return(x.e)))]
                /\ pos' = x.p
                /\ UNCHANGED <<pc, stmts>>
         [] OTHER ->
                /\ pos' = Adv(pos)
                /\ UNCHANGED <<pc, stmts, cur>>
    /\ UNCHANGED <<toks, program, ip, env, out, vals>>
    /\ UNCHANGED lexVars


-----------------------------------------------------------------------------
(* Environment and Value (crate::environment, not among the sources) *)

\* environment::Value
VStr(x) == [k |-> "Str", v |-> x]
VNum(x) == [k |-> "Num", v |-> x]
VBool(x) == [k |-> "Bool", v |-> x]
VNull == [k |-> "Null"]
VFunc(params, body, types) ==
    [k |-> "Func", params |-> params, body |-> body, types |-> types]

\* Value::from(Literal)
ValueFrom(l) ==
    CASE l.lk = "Str" -> VStr(l.lv)
      [] l.lk = "Num" -> VNum(l.lv)
      [] l.lk = "Bool" -> VBool(l.lv)

\* Environment::set on the root scope: insert or overwrite
EnvSet(e, name, val) ==
    [n \in DOMAIN e \cup {name} |-> IF n = name THEN val ELSE e[n]]

\* Environment::get on the root scope
EnvGet(e, name) == IF name \in DOMAIN e THEN Some(e[name]) ELSE None

\* Option::unwrap_or
UnwrapOr(opt, d) == IF opt = None THEN d ELSE opt[1]

-----------------------------------------------------------------------------
(* Interpreter (src/src/interpreter.rs) *)

\* the tolerance 1e-9 of `same` and `not_equal`, in units of 1e-9
Tolerance == 1

\* `same` on two numbers
NumSame(a, b) == AbsDiff(a, b) < Tolerance

\* `not_equal` on two numbers
NumNotEqual(a, b) == AbsDiff(a, b) > Tolerance

\* the match on op of Expr::Binary, applied to the operands' values
BinaryOp(op, l, r) ==
    CASE op = "plus" ->
            (CASE l.k = "Num" /\ r.k = "Num" -> VNum(NumAdd(l.v, r.v))
               [] l.k = "Str" /\ r.k = "Num" -> VStr(l.v \o FormatNum(r.v))
               [] l.k = "Str" /\ r.k = "Str" -> VStr(l.v \o r.v)
               [] OTHER -> VNull)
      [] op = "and" ->
            (CASE l.k = "Bool" /\ r.k = "Bool" -> VBool(l.v /\ r.v)
               [] OTHER -> VNull)
      [] op = "same" ->
            (CASE l.k = "Str" /\ r.k = "Str" -> VBool(l.v = r.v)
               [] l.k = "Num" /\ r.k = "Num" -> VBool(NumSame(l.v, r.v))
               [] OTHER -> VBool(FALSE))
      [] op = "not_equal" ->
            (CASE l.k = "Num" /\ r.k = "Num" -> VBool(NumNotEqual(l.v, r.v))
               [] l.k = "Str" /\ r.k = "Str" -> VBool(l.v # r.v)
               [] OTHER -> VBool(TRUE))
      [] OTHER -> VNull

\* Expr::Run applied to its boxed expression
RunValue(inner, e) ==
    CASE inner.tag = "Call" -> VNull
      [] inner.tag = "Var" ->
            IF inner.name = "add" THEN VNum(MkNum(42, 0))
            ELSE UnwrapOr(EnvGet(e, inner.name), VNull)
      [] OTHER -> VNull

\* Expr::Call: the callee is looked up, the body is not executed and every
\* path returns Null
CallValue(callee, args, e) ==
    IF callee.tag = "Var" THEN
        LET f == EnvGet(e, callee.name)
        IN  IF f # None /\ f[1].k = "Func" THEN VNull ELSE VNull
    ELSE VNull

RECURSIVE eval_expr(_, _)
RECURSIVE EvalBranch(_, _)

\* eval_expr: v is the value returned, pr the values println! printed as
\* "Return => v", in order
eval_expr(expr, e) ==
    CASE expr.tag = "Lit" -> [v |-> ValueFrom(expr.lit), pr |-> <<>>]
      [] expr.tag = "Var" -> [v |-> UnwrapOr(EnvGet(e, expr.name), VNull), pr |-> <<>>]
      [] expr.tag = "Binary" ->
            LET l == eval_expr(expr.left, e)
                r == eval_expr(expr.right, e)
            IN  [v |-> BinaryOp(expr.op, l.v, r.v), pr |-> l.pr \o r.pr]
      [] expr.tag = "If" ->
            LET c == eval_expr(expr.cond, e)
                take_then == c.v.k = "Bool" /\ c.v.v
                branch == IF take_then THEN expr.then_body
                          ELSE IF expr.else_body # None THEN expr.else_body[1]
                          ELSE <<>>
            IN  [v |-> VNull, pr |-> c.pr \o EvalBranch(branch, e)]
      [] expr.tag = "Run" -> [v |-> RunValue(expr.e, e), pr |-> <<>>]
      [] expr.tag = "Return" ->
            LET r == eval_expr(expr.e, e)
            IN  [v |-> r.v, pr |-> Append(r.pr, r.v)]
      [] expr.tag = "Call" -> [v |-> CallValue(expr.callee, expr.args, e), pr |-> <<>>]
      [] OTHER -> [v |-> VNull, pr |-> <<>>]

\* the `for st in then_body` / `for st in else_block` loops of Expr::If:
\* every statement of the branch is evaluated, what was printed
EvalBranch(body, e) ==
    IF body = <<>> THEN <<>>
    ELSE LET st == Head(body)
             here == IF st.st = "Expr" THEN eval_expr(st.e, e).pr ELSE <<>>
         IN  here \o EvalBranch(Tail(body), e)

\* a binding under the original name whatever the alias
ImportBoundNameOriginal(imp) == imp.name

\* alias.unwrap_or(name.clone())
ImportBoundName(imp) == UnwrapOr(imp.alias, imp.name)

\* every module taken as unknown
ImportValueAlwaysNull(module) == VNull

\* the value an import binds: a function for http_request, else Null
ImportValue(module) ==
    IF module = "http_request"
    THEN VFunc(<<"url">>, <<>>, <<>>)
    ELSE VNull

\* format!("__fn_{}", r)
FnName(r) == "__fn_" \o ToString(r)

\* what a statement that is no expression statement leaves in vals
NoValue == [k |-> "None"]

PrintReturn(v) == [tag |-> "Return", v |-> v]
PrintRegistered(name) == [tag |-> "Registered", name |-> name]

\* one iteration of interpret's `for s in program`
InterpStep ==
    /\ pc = "interpret"
    /\ ip <= Len(program)
    /\ LET s == program[ip] IN
       CASE s.st = "ImportStmt" /\ s.e.tag = "Import" ->
                /\ env' = EnvSet(env, ImportBoundName(s.e), ImportValue(s.e.module))
                /\ vals' = Append(vals, NoValue)
                /\ UNCHANGED out
         [] s.st = "FunctionDef" /\ s.e.tag = "Function" ->
                \E r \in 0..RandMax :
                    /\ env' = EnvSet(env, FnName(r),
                                     VFunc(s.e.params, s.e.body, s.e.types))
                    /\ out' = Append(out, PrintRegistered(FnName(r)))
                    /\ vals' = Append(vals, NoValue)
         [] s.st = "Expr" ->
                LET r == eval_expr(s.e, env) IN
                /\ out' = out \o [i \in 1..Len(r.pr) |-> PrintReturn(r.pr[i])]
                /\ vals' = Append(vals, r.v)
                /\ UNCHANGED env
         [] OTHER ->
                /\ vals' = Append(vals, NoValue)
                /\ UNCHANGED <<env, out>>
    /\ ip' = ip + 1
    /\ UNCHANGED <<pc, program>>
    /\ UNCHANGED parseVars
    /\ UNCHANGED lexVars

\* interpret returns
InterpEnd ==
    /\ pc = "interpret"
    /\ ip > Len(program)
    /\ pc' = "done"
    /\ UNCHANGED <<program, ip, env, out, vals>>
    /\ UNCHANGED parseVars
    /\ UNCHANGED lexVars


-----------------------------------------------------------------------------
(* Inputs *)

\* the root Environment main hands to interpret: the builtin `add`
InitEnv == [n \in {"add"} |-> VFunc(<<"x">>, <<>>, <<>>)]

\* top-level fragments: imports and one small function
ImportFrags ==
    { <<Tk("Import"), Id("request"), Tk("From"), Id("http_request")>>,
      <<Tk("Import"), Id("request"), Tk("Arrow"), Id("req"), Tk("From"), Id("http_request")>>,
      <<Tk("Import"), Id("request"), Tk("From"), Id("other")>>,
      <<Tk("Import"), Id("request"), Tk("Arrow"), Id("req"), Tk("From"), Id("other")>>,
      <<Tk("Import"), Id("get"), Tk("From"), StringLit("http_request")>>,
      <<Tk("Import"), Tk("From")>>,
      <<Tk("FnKw"), Tk("LParen"), Tk("RParen"), Tk("Ret"), Id("request"), Tk("Underscore")>> }

\* most top-level fragments in a parser input made of imports
MaxTopFrags == 2

\* function headers: the parameter list closed, not closed, absent
Headers ==
    { <<Tk("FnKw"), Tk("Equals"), Tk("LParen"), Id("a"), Tk("Comma"), Id("b"), Tk("RParen")>>,
      <<Tk("FnKw"), Tk("LParen"), Tk("RParen")>>,
      <<Tk("FnKw"), Tk("Equals"), Tk("LParen"), Id("a")>>,
      <<Tk("FnKw"), Tk("Equals")>> }

\* type blocks: absent, closed, not closed, without `<`
TypeBlocks ==
    { <<>>,
      <<Tk("Colon"), Tk("LAngle"), Id("a"), Id("is"), Id("string"), Tk("Comma"),
        Id("b"), Id("Is"), StringLit("t"), Id("c"), Tk("RAngle")>>,
      <<Tk("Colon"), Tk("LAngle"), Id("a"), Id("is"), Id("string")>>,
      <<Tk("Colon"), Id("a")>> }

\* bodies that follow each header and type block
SmallBodies ==
    { <<>>,
      <<Tk("Ret"), Id("a"), Tk("Underscore")>>,
      <<Tk("Ret"), Id("a"), Tk("Underscore"),
        Tk("Import"), Id("request"), Tk("From"), Id("http_request")>> }

\* the header of the functions whose bodies are built from BodyFrags
PlainHeader == <<Tk("FnKw"), Tk("Equals"), Tk("LParen"), Id("a"), Tk("RParen")>>

BodyFrags ==
    { <<Tk("If"), Tk("LParen"), Id("a"), Tk("RParen"), Tk("Then")>>,
      <<Tk("Ret"), Id("b")>>,
      <<Tk("Run"), Id("f")>>,
      <<Tk("Otherwise")>>,
      <<Id("plus"), Id("c")>>,
      <<Id("not"), Id("equal"), NumberLit(MkNum(0, 0))>>,
      <<StringLit("s")>>,
      <<Id("x")>>,
      <<Tk("Underscore")>> }

\* the token sequences handed to the parser, each ended by Eof
ParseInputs ==
    {Flatten(fs) \o <<Tk("Eof")>> : fs \in SeqsUpTo(ImportFrags, MaxTopFrags)}
    \cup {h \o t \o b \o <<Tk("Eof")>> : h \in Headers, t \in TypeBlocks, b \in SmallBodies}
    \cup {PlainHeader \o Flatten(fs) \o <<Tk("Eof")>> : fs \in SeqsUpTo(BodyFrags, MaxBodyFrags)}

\* operands of the binary operators
OperandLits ==
    { LitNum(MkNum(0, 0)), LitNum(MkNum(0, 1)), LitNum(MkNum(0, 2)), LitNum(MkNum(1, 0)),
      LitStr("a"), LitStr("b"), LitBool(TRUE), LitBool(FALSE) }

YesNoBody ==
    <<StmtExpr(If(Binary(Var("x"), "same", Lit(LitNum(MkNum(1, 0)))),
                  <<StmtExpr(Return(Lit(LitStr("yes"))))>>,
                  Some(<<StmtExpr(Return(Lit(LitStr("no"))))>>)))>>

\* statements of the programs handed directly to interpret
StmtPool ==
    { ImportStmt(Import("request", None, "http_request")),
      ImportStmt(Import("request", Some("req"), "other")),
      ImportStmt(Import("request", Some("__fn_0"), "http_request")),
      FunctionDef(Function(<<"x">>, <<>>, <<StmtExpr(Return(Lit(LitStr("yes"))))>>)),
      FunctionDef(Function(<<"x">>, <<<<"x", "number">>>>, YesNoBody)),
      FunctionDef(Function(<<>>, <<>>, <<>>)),
      StmtExpr(Call(Var("__fn_0"), <<Lit(LitNum(MkNum(1, 0)))>>)),
      StmtExpr(Call(Var("add"), <<>>)),
      StmtExpr(Return(Call(Var("__fn_1"), <<Lit(LitNum(MkNum(0, 2)))>>))),
      StmtExpr(Call(Lit(LitStr("f")), <<>>)),
      StmtExpr(If(Lit(LitBool(TRUE)),
                  <<StmtExpr(Return(Lit(LitStr("first")))),
                    StmtExpr(Return(Lit(LitStr("second"))))>>,
                  None)),
      StmtExpr(If(Var("request"),
                  <<StmtExpr(Return(Var("request")))>>,
                  Some(<<StmtExpr(Run(Var("add"))),
                         StmtExpr(Return(Lit(LitStr("no")))),
                         StmtEmpty,
                         StmtExpr(Return(Var("req")))>>))),
      StmtExpr(If(Lit(LitBool(FALSE)), <<StmtExpr(Return(Lit(LitStr("then"))))>>, None)),
      StmtExpr(Run(Var("req"))),
      StmtExpr(Run(Call(Var("add"), <<>>))),
      StmtExpr(Run(Lit(LitBool(TRUE)))),
      StmtExpr(Import("request", None, "http_request")),
      StmtEmpty }

\* two binary expressions over the same operands, one after the other
BinaryPrograms ==
    { <<StmtExpr(Binary(Lit(l), op1, Lit(r))), StmtExpr(Binary(Lit(l), op2, Lit(r)))>> :
        l \in OperandLits, r \in OperandLits,
        op1 \in {"same", "plus"}, op2 \in {"not_equal", "and", "minus"} }

InterpInputs == SeqsUpTo(StmtPool, MaxProg) \cup BinaryPrograms

-----------------------------------------------------------------------------
(* Specifications *)

LexIdle ==
    /\ input = <<>> /\ lpos = 1 /\ ltokens = <<>> /\ lstatus = "idle"

ParseIdle ==
    /\ toks = <<>> /\ pos = 1 /\ stmts = <<>> /\ cur = NoFunction

InterpStart ==
    /\ ip = 1 /\ env = InitEnv /\ out = <<>> /\ vals = <<>>

\* Lexer::new(input) for each input
InitLex ==
    /\ input \in LexInputs
    /\ lpos = 1 /\ ltokens = <<>> /\ lstatus = "scanning"
    /\ ParseIdle /\ pc = "idle" /\ program = <<>> /\ InterpStart

\* Parser::new(tokens) for each token sequence, Environment::new() and the
\* registration of `add`
Init ==
    /\ LexIdle
    /\ toks \in ParseInputs
    /\ pos = 1 /\ stmts = <<>> /\ cur = NoFunction
    /\ pc = "parse_program" /\ program = <<>> /\ InterpStart

\* interpret(program, &env) for each program
InitInterp ==
    /\ LexIdle
    /\ ParseIdle
    /\ program \in InterpInputs
    /\ pc = "interpret" /\ InterpStart

NextLex == LexStep

Next == ParseProgramStep \/ ParamStep \/ TypeStep \/ BodyStep \/ InterpStep \/ InterpEnd

NextInterp == InterpStep \/ InterpEnd

SpecLex == InitLex /\ [][NextLex]_vars

\* tokenize is a sequential loop: while an iteration can run, it runs
SpecLexFair == SpecLex /\ WF_vars(NextLex)

Spec == Init /\ [][Next]_vars

SpecInterp == InitInterp /\ [][NextInterp]_vars


-----------------------------------------------------------------------------
(* Claims about interpret and eval_expr, checked under SpecInterp *)

Running == pc \in {"interpret", "done"}

\* the statement interpret executed last, when there is one
Executed == Running /\ ip > 1
LastStmt == program[ip - 1]

\* the call scope the specification describes: each parameter bound to its
\* argument's value, Null when the argument is missing
CallScope(f, args, e) ==
    [n \in DOMAIN e \cup {f.params[i] : i \in 1..Len(f.params)} |->
        IF \E i \in 1..Len(f.params) : f.params[i] = n
        THEN LET i == CHOOSE j \in 1..Len(f.params) : f.params[j] = n
             IN  IF i <= Len(args) THEN eval_expr(args[i], e).v ELSE VNull
        ELSE e[n]]

\* the value of the first Return executed in program order in a statement
\* sequence, following the taken branch of each If; None when no Return runs
RECURSIVE FirstReturn(_, _)
FirstReturn(body, scope) ==
    IF body = <<>> THEN None
    ELSE LET st == Head(body)
             here ==
                IF st.st # "Expr" THEN None
                ELSE IF st.e.tag = "Return" THEN Some(eval_expr(st.e.e, scope).v)
                ELSE IF st.e.tag = "If" THEN
                    LET c == eval_expr(st.e.cond, scope).v
                    IN  IF c.k = "Bool" /\ c.v THEN FirstReturn(st.e.then_body, scope)
                        ELSE IF st.e.else_body # None
                             THEN FirstReturn(st.e.else_body[1], scope)
                             ELSE None
                ELSE None
         IN  IF here # None THEN here ELSE FirstReturn(Tail(body), scope)

\* the last executed statement is a call whose callee is bound to a function
CalledFunction ==
    /\ Executed
    /\ LastStmt.st = "Expr"
    /\ LastStmt.e.tag = "Call"
    /\ LastStmt.e.callee.tag = "Var"
    /\ LastStmt.e.callee.name \in DOMAIN env
    /\ env[LastStmt.e.callee.name].k = "Func"

\* C1: a call whose callee resolves to a function value returns the value of
\* the first Return executed in the body (following taken if-branches), and
\* null when no Return executes.
C1_CallReturnsFirstReturn ==
    CalledFunction =>
        LET f == env[LastStmt.e.callee.name]
            expected == FirstReturn(f.body, CallScope(f, LastStmt.e.args, env))
        IN  vals[ip - 1] = UnwrapOr(expected, VNull)

\* the first statement of the program was an If and it alone has run, so
\* that out holds what its branch printed
RanOneIf ==
    /\ Running /\ ip = 2
    /\ program[1].st = "Expr"
    /\ program[1].e.tag = "If"

\* C2: in a then-branch or otherwise-branch, once a Return has been
\* evaluated no later statement of the branch is evaluated (so one If prints
\* at most one "Return =>" line), and the Return's value is the result.
C2_ReturnShortCircuits ==
    RanOneIf =>
        /\ Len(out) <= 1
        /\ Len(out) = 1 => vals[1] = out[1].v

\* the name and the value the specification gives an import statement
BoundName(imp) == IF imp.alias # None THEN imp.alias[1] ELSE imp.name

ExecutedImport ==
    /\ Executed
    /\ LastStmt.st = "ImportStmt"
    /\ LastStmt.e.tag = "Import"

\* C4: an executed import binds a function value when the module is
\* http_request and null for every other module; no import aborts the run:
\* when interpret returns, every statement of the program has been executed.
C4_ImportValueByModule ==
    /\ ExecutedImport =>
            /\ BoundName(LastStmt.e) \in DOMAIN env
            /\ IF LastStmt.e.module = "http_request"
               THEN env[BoundName(LastStmt.e)].k = "Func"
               ELSE env[BoundName(LastStmt.e)] = VNull
    /\ Running => Len(vals) = ip - 1
    /\ pc = "done" => ip = Len(program) + 1

\* an import of an unknown module has been executed and bound null, and the
\* import of http_request after it has been executed and bound a function
C4_Witness ==
    /\ Running /\ ip = 3
    /\ program[1].st = "ImportStmt"
    /\ program[1].e.module # "http_request"
    /\ env[BoundName(program[1].e)] = VNull
    /\ program[2].st = "ImportStmt"
    /\ program[2].e.module = "http_request"
    /\ env[BoundName(program[2].e)].k = "Func"

\* the program evaluated `l same r` and then `l not_equal r`
RanSameThenNotEqual ==
    /\ pc = "done"
    /\ Len(program) = 2
    /\ program[1].st = "Expr" /\ program[1].e.tag = "Binary" /\ program[1].e.op = "same"
    /\ program[2].st = "Expr" /\ program[2].e.tag = "Binary" /\ program[2].e.op = "not_equal"
    /\ program[1].e.left = program[2].e.left
    /\ program[1].e.right = program[2].e.right
    /\ program[1].e.left.tag = "Lit" /\ program[1].e.right.tag = "Lit"

\* C7: not_equal is the negation of same for operands of the same kind
\* (numbers, the 1e-9 boundary included, strings, booleans) and true for
\* operands of different kinds.
C7_NotEqualNegatesSame ==
    RanSameThenNotEqual =>
        IF program[1].e.left.lit.lk = program[1].e.right.lit.lk
        THEN vals[2] = VBool(~vals[1].v)
        ELSE vals[2] = VBool(TRUE)

\* C8: a function definition is registered under a name that no binding of
\* the scope has yet, so each definition adds one binding and overwrites none.
C8_FreshFunctionName ==
    [][(/\ pc = "interpret"
        /\ ip <= Len(program)
        /\ program[ip].st = "FunctionDef"
        /\ ip' = ip + 1)
       => /\ Cardinality(DOMAIN env') = Cardinality(DOMAIN env) + 1
          /\ \A n \in DOMAIN env : env'[n] = env[n]]_vars


-----------------------------------------------------------------------------
(* Claims about the parser, checked under Spec *)

Parsing == pc \in {"parse_program", "fn_params", "fn_types", "fn_body"}

\* tokens `import <name> -> <alias> from <module>` at position p
AliasImportAt(p) ==
    /\ Peek(p).t = "Import"
    /\ IsId(Peek(p + 1))
    /\ Peek(p + 2).t = "Arrow"
    /\ IsId(Peek(p + 3))
    /\ Peek(p + 4).t = "From"
    /\ Peek(p + 5).t \in {"Identifier", "StringLit"}

\* tokens `import <name> from <module>` at position p
PlainImportAt(p) ==
    /\ Peek(p).t = "Import"
    /\ IsId(Peek(p + 1))
    /\ Peek(p + 2).t = "From"
    /\ Peek(p + 3).t \in {"Identifier", "StringLit"}

\* C3: an import statement with an alias is parsed with that alias and its
\* execution binds the alias and creates or changes no other binding, so none
\* under the original name; without an alias the original name is bound.
C3_ImportBindsAlias ==
    [][/\ (pc = "parse_program" /\ stmts' # stmts /\ AliasImportAt(pos)) =>
            /\ Last(stmts').st = "ImportStmt"
            /\ Last(stmts').e.name = Peek(pos + 1).s
            /\ Last(stmts').e.alias = Some(Peek(pos + 3).s)
       /\ (pc = "parse_program" /\ stmts' # stmts /\ PlainImportAt(pos)) =>
            /\ Last(stmts').st = "ImportStmt"
            /\ Last(stmts').e.name = Peek(pos + 1).s
            /\ Last(stmts').e.alias = None
       /\ (pc = "interpret" /\ ip' = ip + 1 /\ program[ip].st = "ImportStmt") =>
            LET b == BoundName(program[ip].e) IN
            /\ b \in DOMAIN env'
            /\ \A n \in DOMAIN env' \ {b} : n \in DOMAIN env /\ env'[n] = env[n]
      ]_vars

\* `import request -> req from ...` was parsed and executed: req is bound,
\* request is not
C3_Witness ==
    /\ Running /\ ip = 2
    /\ AliasImportAt(1)
    /\ program[1].st = "ImportStmt"
    /\ program[1].e.alias # None
    /\ program[1].e.alias[1] # program[1].e.name
    /\ program[1].e.alias[1] \in DOMAIN env
    /\ program[1].e.name \notin DOMAIN env

\* C5: parse_program terminates on every token sequence ended by Eof: while
\* the parser runs, the next iteration of the loop it is in changes its
\* state (it consumes a token, records something or leaves the loop).
C5_ParserProgress == Parsing => ENABLED <<Next>>_vars

IsOperand(e) == e.tag \in {"Var", "Lit"}

\* one operator application at most
SinglePair(e) ==
    \/ IsOperand(e)
    \/ e.tag = "Binary" /\ IsOperand(e.left) /\ IsOperand(e.right)

\* a chain of operator applications nested to the right
RECURSIVE RightNested(_)
RightNested(e) ==
    \/ IsOperand(e)
    \/ e.tag = "Binary" /\ IsOperand(e.left) /\ RightNested(e.right)

\* the expressions parse_simple_expr returned for a statement of a body
RECURSIVE ExprsOfBody(_)
ExprsOf(st) ==
    IF st.e.tag \in {"Return", "Run"} THEN {st.e.e}
    ELSE {st.e.cond} \cup ExprsOfBody(st.e.then_body)
         \cup (IF st.e.else_body = None THEN {} ELSE ExprsOfBody(st.e.else_body[1]))
ExprsOfBody(body) == UNION {ExprsOf(body[i]) : i \in 1..Len(body)}

\* the body loop parses a statement in this step
ParsesStatement ==
    /\ pc = "fn_body"
    /\ Peek(pos).t \in {"Ret", "Run", "If"}
    /\ pos' # pos

\* C9 as stated: every expression parse_simple_expr returns holds one
\* operator application at most, never a Binary inside a Binary.
C9_SinglePairOnly ==
    [][ParsesStatement => \A e \in ExprsOf(Last(cur'.body)) : SinglePair(e)]_vars

\* tokens `a o1 b o2 c` at position p, the chain ending there, neither
\* operator being the two-word `not equal`
ChainOfThreeAt(p) ==
    /\ \A i \in 0..4 : IsId(Peek(p + i))
    /\ ~IsId(Peek(p + 5))
    /\ ~(Peek(p + 1).s = "not" /\ Peek(p + 2).s = "equal")
    /\ ~(Peek(p + 3).s = "not" /\ Peek(p + 4).s = "equal")

\* C9 amended: parse_simple_expr takes the whole operator chain; the left
\* child of every Binary is a plain operand and the right child is the rest
\* of the chain, so `a op b op c` becomes Binary(a, op, Binary(b, op, c)) and
\* no identifier of the chain is left unconsumed.
C9_ChainsNestRight ==
    [][/\ ParsesStatement => \A e \in ExprsOf(Last(cur'.body)) : RightNested(e)
       /\ (ParsesStatement /\ Peek(pos).t \in {"Ret", "Run"}) => ~IsId(Peek(pos'))
       /\ (ParsesStatement /\ Peek(pos).t = "Ret" /\ ChainOfThreeAt(pos + 1)) =>
            /\ pos' = pos + 6
            /\ Last(cur'.body).e.e =
                  Binary(Var(Peek(pos + 1).s), Peek(pos + 2).s,
                         Binary(Var(Peek(pos + 3).s), Peek(pos + 4).s,
                                Var(Peek(pos + 5).s)))
      ]_vars

\* a statement `ret a op b op c` has been parsed into a nested Binary
C9_Witness ==
    /\ pc = "fn_body"
    /\ cur.body # <<>>
    /\ Last(cur.body).e.tag = "Return"
    /\ Last(cur.body).e.e.tag = "Binary"
    /\ Last(cur.body).e.e.right.tag = "Binary"
    /\ pos > 6
    /\ Peek(pos - 6).t = "Ret"
    /\ ChainOfThreeAt(pos - 5)

\* the position of the block-end marker or end of input that ends the
\* conditional starting at p
RECURSIVE BlockEnd(_)
BlockEnd(p) == IF Peek(p).t \in {"Underscore", "Eof"} THEN p ELSE BlockEnd(p + 1)

OtherwiseIn(p, q) == {i \in p..(q - 1) : Peek(i).t = "Otherwise"}

\* the `ret` and `run` tokens between positions p and q that start a
\* statement: each is followed by an operand
RetRunIn(p, q) ==
    {i \in p..(q - 1) :
        /\ Peek(i).t \in {"Ret", "Run"}
        /\ Peek(i + 1).t \in {"Identifier", "StringLit", "NumberLit", "BoolLit"}}

\* C10: every ret/run statement after `otherwise`, up to the block-end marker
\* or end of input, is accumulated in order into the else-branch, none is
\* dropped or left to the enclosing function body: the else-branch of the
\* parsed If holds one statement per ret/run that follows `otherwise`.
C10_ElseAccumulates ==
    [][(/\ pc = "fn_body"
        /\ Peek(pos).t = "If"
        /\ pos' # pos
        /\ Cardinality(OtherwiseIn(pos, BlockEnd(pos))) = 1)
       => LET ife == Last(cur'.body).e
              ow == CHOOSE i \in OtherwiseIn(pos, BlockEnd(pos)) : TRUE
              n == Cardinality(RetRunIn(ow, BlockEnd(pos)))
          IN  n = (IF ife.else_body = None THEN 0 ELSE Len(ife.else_body[1]))
      ]_vars


-----------------------------------------------------------------------------
(* Claims about the lexer, checked under SpecLex *)

\* the end of the longest run of characters of S that starts at position i
RunEnd(S, i) ==
    CHOOSE j \in i..(Len(input) + 1) :
        /\ \A k \in i..(j - 1) : input[k] \in S
        /\ j = Len(input) + 1 \/ input[j] \notin S

\* what the specification says of the input from position i on: "ok", or
\* "badnum" for a run of digits and dots that is no number (two dots or
\* more), or "unterminated" for a `"` with no closing `"` after it
RECURSIVE Lexical(_)
Lexical(i) ==
    IF i > Len(input) THEN "ok"
    ELSE IF input[i] = "\"" THEN
        LET j == RunEnd(Chars \ {"\""}, i + 1)
        IN  IF j > Len(input) THEN "unterminated" ELSE Lexical(j + 1)
    ELSE IF input[i] \in Digits THEN
        LET j == RunEnd(Digits \cup {"."}, i)
        IN  IF Cardinality({k \in i..(j - 1) : input[k] = "."}) >= 2
            THEN "badnum"
            ELSE Lexical(j)
    ELSE IF input[i] \in Letters \cup {"_"} THEN
        Lexical(RunEnd(Letters \cup Digits \cup {"_"}, i))
    ELSE Lexical(i + 1)

\* C6: tokenize fails exactly when the input holds a malformed numeric
\* literal or an unterminated string literal, and on no other input.
C6_FailsExactlyOnMalformed ==
    lstatus \in {"done", "panic"} =>
        (lstatus = "panic" <=> Lexical(1) \in {"badnum", "unterminated"})

\* the words the lookahead of parse_simple_expr is documented to accept as
\* an operator at position p: plus, and, same, or not followed by equal
KnownOperatorAt(p) ==
    /\ IsId(Peek(p))
    /\ \/ Peek(p).s \in {"plus", "and", "same"}
       \/ Peek(p).s = "not" /\ IsId(Peek(p + 1)) /\ Peek(p + 1).s = "equal"

\* the operator name a known operator word at position p yields
OperatorNameAt(p) == IF Peek(p).s = "not" THEN "not_equal" ELSE Peek(p).s

\* a `ret` or `run` statement starts at pos and is being parsed
ParsesRetRun ==
    /\ ParsesStatement
    /\ Peek(pos).t \in {"Ret", "Run"}

\* C11: after one operand, parse_simple_expr builds a Binary only when the
\* next identifier is a known operator word (plus, and, same, or not followed
\* by equal, which yields not_equal); any other identifier is left unconsumed
\* and the expression is the single operand.
C11_OnlyKnownOperators ==
    [][ParsesRetRun =>
          LET operand == ParseOperand(pos + 1)
              e == Last(cur'.body).e.e
          IN  IF KnownOperatorAt(operand.p)
              THEN /\ e.tag = "Binary"
                   /\ e.left = operand.e
                   /\ e.op = OperatorNameAt(operand.p)
              ELSE /\ e = operand.e
                   /\ pos' = operand.p
      ]_vars

\* how many times the end-of-input token occurs in a token sequence
EofCount(ts) == Cardinality({i \in 1..Len(ts) : ts[i] = LTok("EOF")})

\* tokenize has returned (done) or unwound with a panic
LexEnded == lstatus \in {"done", "panic"}

\* one iteration of tokenize's loop with a character left to read
LoopIteration == lstatus = "scanning" /\ lpos <= Len(input)

\* C12: on every input tokenize ends (each loop iteration consumes at least
\* one character and never runs past the input), and when it returns, the
\* token sequence holds the end-of-input token exactly once, as its last
\* element.
C12_TerminatesWithOneEof ==
    /\ <>LexEnded
    /\ [][LoopIteration => lpos' > lpos /\ lpos' <= Len(input) + 1]_vars
    /\ [](lstatus = "scanning" => EofCount(ltokens) = 0)
    /\ [](lstatus = "done" =>
            /\ ltokens # <<>>
            /\ Last(ltokens) = LTok("EOF")
            /\ EofCount(ltokens) = 1)

\* tokenize returned on an input of several characters, some of them
\* consumed by consume_while, with several tokens before the end-of-input
\* token
C12_Witness ==
    /\ lstatus = "done"
    /\ Len(input) >= 4
    /\ Len(ltokens) >= 3
    /\ \E i \in 1..Len(ltokens) : ltokens[i].t \in {"StringLiteral", "Identifier", "NumberLiteral"}
    /\ Last(ltokens) = LTok("EOF")

=============================================================================
